---- MODULE Spec2Model ----
(***************************************************************************)
(* Model of src/map.js: the minute-bucket trip index built by the map      *)
(* 'load' handler, the windowed query filterByMinute, the per-station      *)
(* aggregation computeStationTraffic and the slider-driven re-aggregation. *)
(*                                                                         *)
(* JavaScript arrays are modelled as TLA+ sequences: element k of a JS     *)
(* array (0-based) is element k+1 of the sequence.                         *)
(***************************************************************************)
EXTENDS Integers, Sequences, FiniteSets

VARIABLES
  pc,                  \* position of the async 'load' handler (map.js:95-239)
  stationsJson,        \* jsonData.data.stations as fetched (short_names), map.js:129
  stationsLoad,        \* outcome of d3.json: "pending" | "ok" | "failed"
  tripsLoad,           \* outcome of d3.csv: "pending" | "ok" | "failed" | "threw"
  csv,                 \* rows of the fetched CSV text the row callback has not seen yet
  trips,               \* rows the row callback has returned so far (map.js:146)
  departuresByMinute,  \* map.js:6
  arrivalsByMinute,    \* map.js:7
  stations,            \* map.js:127
  timeFilter,          \* map.js:23
  filteredTrips,       \* the two filterByMinute results of the last computeStationTraffic
  circles,             \* the circle selection: per node its key, style and title
  radiusRange,         \* radiusScale.range()
  selectedTime,        \* selectedTime.textContent
  anyTimeDisplay,      \* anyTimeLabel.style.display
  consoleErrors,       \* what console.error has printed
  sliderListener       \* TRUE once timeSlider has its 'input' listener

vars == <<pc, stationsJson, stationsLoad, tripsLoad, csv, trips, departuresByMinute,
          arrivalsByMinute, stations, timeFilter, filteredTrips, circles, radiusRange,
          selectedTime, anyTimeDisplay, consoleErrors, sliderListener>>

----------------------------------------------------------------------------
(* Program constants *)

\* length of both bucket arrays (map.js:6-7) and the modulus of filterByMinute
MinutesPerDay == 1440

\* the fixed radius of filterByMinute (map.js:40-41)
Radius == 60

\* A Date is its time value, here in minutes of local time since the first day of the
\* data; the time value of an Invalid Date is NaN, getHours() and getMinutes() of it
\* give NaN and so does hours * 60 + minutes.  NaN is encoded as a number that is
\* neither a time value nor an array index, which is all the program uses it for
\* (array[NaN] is undefined, exactly as array[-1] is).
NaN == -1

\* a station record as fetched has no arrivals/departures/totalTraffic property
undefined == -1

----------------------------------------------------------------------------
(* Bounds and input sets *)

MaxTrips == 3

\* the station totals of the flow-balance specification: every total up to
\* MaxSmallTotal, and LargeTotal for the ratios 0.33, 0.34 and 0.67
MaxSmallTotal == 9

LargeTotal == 100

StationArrays == { <<"B", "A", "C">>, <<"A", "B", "A">> }

Malformed == [day |-> 0, hh |-> 25, mm |-> 0]

CsvRows ==
  { [start_station_id |-> "A", end_station_id |-> "B",
     started_at |-> [day |-> 0, hh |-> 0, mm |-> 10],
     ended_at |-> [day |-> 0, hh |-> 0, mm |-> 30]],
    [start_station_id |-> "B", end_station_id |-> "A",
     started_at |-> [day |-> 1, hh |-> 11, mm |-> 40],
     ended_at |-> [day |-> 1, hh |-> 12, mm |-> 5]],
    [start_station_id |-> "A", end_station_id |-> "A",
     started_at |-> [day |-> 1, hh |-> 23, mm |-> 50],
     ended_at |-> [day |-> 2, hh |-> 0, mm |-> 20]],
    [start_station_id |-> "A", end_station_id |-> "X",
     started_at |-> [day |-> 2, hh |-> 11, mm |-> 0],
     ended_at |-> [day |-> 2, hh |-> 15, mm |-> 0]],
    [start_station_id |-> "A", end_station_id |-> "B",
     started_at |-> Malformed,
     ended_at |-> [day |-> 0, hh |-> 0, mm |-> 30]],
    [start_station_id |-> "B", end_station_id |-> "A",
     started_at |-> [day |-> 1, hh |-> 11, mm |-> 40],
     ended_at |-> Malformed] }

CsvTexts == UNION { [1..n -> CsvRows] : n \in 0..MaxTrips }

ValidFilters == (-1)..(MinutesPerDay - 1)

SliderValues == { -1, 30, 700, 1439, 1500, -2, -2000 }

----------------------------------------------------------------------------
(* JavaScript primitives *)

Min(a, b) == IF a < b THEN a ELSE b

Max(a, b) == IF a > b THEN a ELSE b

\* the % operator: the result takes the sign of the dividend
jsRem(a, n) == IF a >= 0 THEN a % n ELSE -((-a) % n)

\* Array.prototype.slice(start, end): negative indices count from the end,
\* both are clamped to [0, length]
slice(arr, start, end) ==
  LET len == Len(arr)
      s == IF start < 0 THEN Max(len + start, 0) ELSE Min(start, len)
      e == IF end < 0 THEN Max(len + end, 0) ELSE Min(end, len)
  IN IF s >= e THEN <<>> ELSE SubSeq(arr, s + 1, e)

\* the concatenation of arr[lo..hi]; a stretch of empty arrays adds nothing
RECURSIVE flatRange(_, _, _)
flatRange(arr, lo, hi) ==
  IF lo > hi THEN <<>>
  ELSE IF lo = hi THEN arr[lo]
  ELSE IF \A i \in lo..hi : arr[i] = <<>> THEN <<>>
  ELSE LET mid == (lo + hi) \div 2
       IN flatRange(arr, lo, mid) \o flatRange(arr, mid + 1, hi)

\* Array.prototype.flat() of an array of arrays
flat(arr) == flatRange(arr, 1, Len(arr))

\* new Date(text): the time value of the date-time the text gives, or Invalid Date
newDate(raw) ==
  IF raw.day >= 0 /\ raw.hh \in 0..23 /\ raw.mm \in 0..59
  THEN (raw.day * 24 + raw.hh) * 60 + raw.mm
  ELSE NaN

getHours(date) == IF date = NaN THEN NaN ELSE (date \div 60) % 24

getMinutes(date) == IF date = NaN THEN NaN ELSE date % 60

\* faulty variant: getMinutes() forgotten
minutesSinceMidnightHoursOnly(date) ==
  IF getHours(date) = NaN THEN NaN ELSE getHours(date) * 60

minutesSinceMidnight(date) ==
  IF getHours(date) = NaN \/ getMinutes(date) = NaN THEN NaN
  ELSE getHours(date) * 60 + getMinutes(date)

\* formatTime: '(any time)' below 0, else the 12-hour short time of
\* new Date(0, 0, 0, 0, minutes), as <<hour, minute, period>>
formatTime(minutes) ==
  IF minutes < 0 THEN <<"(any time)">>
  ELSE LET h == (minutes \div 60) % 24
           m == minutes % 60
       IN << (IF h % 12 = 0 THEN 12 ELSE h % 12), m, (IF h < 12 THEN "AM" ELSE "PM") >>

----------------------------------------------------------------------------
(* The windowed query and the aggregation *)

\* faulty variant: no handling of the window that crosses midnight
filterByMinuteNoWrap(tripsByMinute, minute) ==
  IF minute = -1 THEN flat(tripsByMinute)
  ELSE LET minMinute == jsRem(minute - Radius + MinutesPerDay, MinutesPerDay)
           maxMinute == jsRem(minute + Radius, MinutesPerDay)
       IN flat(slice(tripsByMinute, minMinute, maxMinute))

\* faulty variant: the upper bound of the window taken inclusive
filterByMinuteInclusive(tripsByMinute, minute) ==
  IF minute = -1 THEN flat(tripsByMinute)
  ELSE LET minMinute == jsRem(minute - Radius + MinutesPerDay, MinutesPerDay)
           maxMinute == jsRem(minute + Radius + 1, MinutesPerDay)
       IN IF minMinute > maxMinute
          THEN LET beforeMidnight == slice(tripsByMinute, minMinute, Len(tripsByMinute))
                   afterMidnight == slice(tripsByMinute, 0, maxMinute)
               IN flat(beforeMidnight \o afterMidnight)
          ELSE flat(slice(tripsByMinute, minMinute, maxMinute))

filterByMinute(tripsByMinute, minute) ==
  IF minute = -1 THEN flat(tripsByMinute)
  ELSE LET minMinute == jsRem(minute - Radius + MinutesPerDay, MinutesPerDay)
           maxMinute == jsRem(minute + Radius, MinutesPerDay)
       IN IF minMinute > maxMinute
          THEN LET beforeMidnight == slice(tripsByMinute, minMinute, Len(tripsByMinute))
                   afterMidnight == slice(tripsByMinute, 0, maxMinute)
               IN flat(beforeMidnight \o afterMidnight)
          ELSE flat(slice(tripsByMinute, minMinute, maxMinute))

\* d3.rollup(values, v => v.length, d => d[key]): a Map from each key present to
\* its count
rollup(values, key) ==
  [k \in { values[i][key] : i \in DOMAIN values } |->
     Cardinality({ i \in DOMAIN values : values[i][key] = k })]

\* map.get(id) ?? 0
getOrZero(map, id) == IF id \in DOMAIN map THEN map[id] ELSE 0

\* the key of the departures rollup, d => d.start_station_id
startStationId == "start_station_id"

\* faulty variant: arrivals grouped by the start station
endStationIdAsStart == "start_station_id"

\* the key of the arrivals rollup, d => d.end_station_id
endStationId == "end_station_id"

\* the two filterByMinute calls of computeStationTraffic(_, tf)
filtered(tf) ==
  [departures |-> filterByMinute(departuresByMinute, tf),
   arrivals |-> filterByMinute(arrivalsByMinute, tf)]

\* faulty variant: totalTraffic counts the arrivals only
stationTrafficArrivalsOnly(stns, trs) ==
  LET departures == rollup(trs.departures, startStationId)
      arrivals == rollup(trs.arrivals, endStationId)
  IN [i \in 1..Len(stns) |->
       LET id == stns[i].short_name
           arr == getOrZero(arrivals, id)
           dep == getOrZero(departures, id)
       IN [stns[i] EXCEPT !.arrivals = arr, !.departures = dep, !.totalTraffic = arr]]

\* faulty variant: the counts are added to what the station already has
stationTrafficAccumulating(stns, trs) ==
  LET departures == rollup(trs.departures, startStationId)
      arrivals == rollup(trs.arrivals, endStationId)
      had(v) == IF v = undefined THEN 0 ELSE v
  IN [i \in 1..Len(stns) |->
       LET id == stns[i].short_name
           arr == had(stns[i].arrivals) + getOrZero(arrivals, id)
           dep == had(stns[i].departures) + getOrZero(departures, id)
       IN [stns[i] EXCEPT !.arrivals = arr, !.departures = dep,
                          !.totalTraffic = arr + dep]]

\* map.js:53-71 on the two filtered trip lists
stationTraffic(stns, trs) ==
  LET departures == rollup(trs.departures, startStationId)
      arrivals == rollup(trs.arrivals, endStationId)
  IN [i \in 1..Len(stns) |->
       LET id == stns[i].short_name
           arr == getOrZero(arrivals, id)
           dep == getOrZero(departures, id)
       IN [stns[i] EXCEPT !.arrivals = arr, !.departures = dep,
                          !.totalTraffic = arr + dep]]

computeStationTraffic(stns, tf) == stationTraffic(stns, filtered(tf))

----------------------------------------------------------------------------
(* The visual scale and the circle selection *)

stationFlowRange == << "0", "0.5", "1" >>

\* faulty variant: bisectLeft instead of bisectRight (a ratio on a threshold stays below it)
stationFlowBisectLeft(x) ==
  stationFlowRange[1 + Cardinality({ i \in 1..(Len(stationFlowRange) - 1) :
                                      i * x.den < Len(stationFlowRange) * x.num })]

\* d3.scaleQuantize().domain([0, 1]).range([0, 0.5, 1]) applied to x = num/den: the
\* thresholds are i/3 for i = 1, 2 and the result is range[bisectRight(thresholds, x)],
\* the number of thresholds <= x.  (num/den and i/3 are correctly rounded doubles, so
\* for counts far below 2^53 they compare as the rationals do.)
stationFlow(x) ==
  stationFlowRange[1 + Cardinality({ i \in 1..(Len(stationFlowRange) - 1) :
                                      i * x.den <= Len(stationFlowRange) * x.num })]

\* the '--departure-ratio' style function (map.js:168-171 and 214-217)
departureRatio(d) ==
  IF d.totalTraffic = 0 THEN "0.5"
  ELSE stationFlow([num |-> d.departures, den |-> d.totalTraffic])

\* the tooltip text `${totalTraffic} trips (${departures} departures, ${arrivals} arrivals)`
titleText(d) == << d.totalTraffic, d.departures, d.arrivals >>

\* selectAll('circle').data(stations, key).enter().append('circle'): there is no
\* circle yet, so every datum enters.  The radius and the position depend on the
\* sqrt scale and the map projection and are left out.
enterCircles(data) ==
  [i \in 1..Len(data) |->
     [key |-> data[i].short_name, departureRatio |-> departureRatio(data[i]),
      title |-> titleText(data[i])]]

\* circles.data(filteredStations, key): of the nodes with one key only the first is
\* bound (to the first datum with that key, which sits at the same position); the
\* others go to the exit selection and keep their style and title.
updateCircles(nodes, data) ==
  [i \in 1..Len(nodes) |->
     IF \A j \in 1..(i - 1) : nodes[j].key # nodes[i].key
     THEN [nodes[i] EXCEPT !.departureRatio = departureRatio(data[i]),
                           !.title = titleText(data[i])]
     ELSE nodes[i]]

----------------------------------------------------------------------------
(* The 'load' handler, step by step *)

\* Array.from({ length: 1440 }, () => [])
emptyIndex == SubSeq([m \in 1..MinutesPerDay |-> <<>>], 1, MinutesPerDay)

\* a station object as parsed from the JSON
freshStation(name) ==
  [short_name |-> name, arrivals |-> undefined, departures |-> undefined,
   totalTraffic |-> undefined]

freshStations(json) == [i \in 1..Len(json) |-> freshStation(json[i])]

Init ==
  /\ pc = "load"
  /\ stationsJson = <<>>
  /\ stationsLoad = "pending"
  /\ tripsLoad = "pending"
  /\ csv = <<>>
  /\ trips = <<>>
  /\ departuresByMinute = emptyIndex
  /\ arrivalsByMinute = emptyIndex
  /\ stations = <<>>
  /\ timeFilter = -1
  /\ filteredTrips = [departures |-> <<>>, arrivals |-> <<>>]
  /\ circles = <<>>
  /\ radiusRange = <<>>
  /\ selectedTime = <<>>
  /\ anyTimeDisplay = ""
  /\ consoleErrors = <<>>
  /\ sliderListener = FALSE

\* map.js:127-131, d3.json resolves
StationsLoaded(json) ==
  /\ pc = "load"
  /\ pc' = "fetchTrips"
  /\ stationsJson' = json
  /\ stationsLoad' = "ok"
  /\ stations' = freshStations(json)
  /\ UNCHANGED <<tripsLoad, csv, trips, departuresByMinute, arrivalsByMinute, timeFilter,
                 filteredTrips, circles, radiusRange, selectedTime, anyTimeDisplay,
                 consoleErrors, sliderListener>>

\* map.js:127-134, d3.json rejects: caught and logged, stations stays []
StationsFailed ==
  /\ pc = "load"
  /\ pc' = "fetchTrips"
  /\ stationsLoad' = "failed"
  /\ consoleErrors' = Append(consoleErrors, "Error loading JSON:")
  /\ UNCHANGED <<stationsJson, stations, tripsLoad, csv, trips, departuresByMinute,
                 arrivalsByMinute, timeFilter, filteredTrips, circles, radiusRange,
                 selectedTime, anyTimeDisplay, sliderListener>>

\* map.js:136, d3.csv has the text and starts calling the row callback
TripsFetched(text) ==
  /\ pc = "fetchTrips"
  /\ pc' = "ingesting"
  /\ csv' = text
  /\ UNCHANGED <<stationsJson, stationsLoad, tripsLoad, trips, departuresByMinute,
                 arrivalsByMinute, stations, timeFilter, filteredTrips, circles,
                 radiusRange, selectedTime, anyTimeDisplay, consoleErrors, sliderListener>>

\* map.js:136, d3.csv rejects: the await throws outside any try, the handler ends
TripsFailed ==
  /\ pc = "fetchTrips"
  /\ pc' = "aborted"
  /\ tripsLoad' = "failed"
  /\ UNCHANGED <<stationsJson, stationsLoad, csv, trips, departuresByMinute,
                 arrivalsByMinute, stations, timeFilter, filteredTrips, circles,
                 radiusRange, selectedTime, anyTimeDisplay, consoleErrors, sliderListener>>

\* the trip object of map.js:137-138; ride is the object's identity
parseTrip(row, ride) ==
  [ride |-> ride, start_station_id |-> row.start_station_id,
   end_station_id |-> row.end_station_id,
   started_at |-> newDate(row.started_at), ended_at |-> newDate(row.ended_at)]

\* tripsByMinute[minute] is an array only for an index 0..1439
isBucket(tripsByMinute, minute) == minute \in 0..(Len(tripsByMinute) - 1)

\* tripsByMinute[minute].push(trip)
push(tripsByMinute, minute, trip) ==
  [tripsByMinute EXCEPT ![minute + 1] = Append(@, trip)]

\* map.js:136-147, the row callback on the next row.  tripsByMinute[NaN] is
\* undefined and .push on it throws a TypeError: d3.csv rejects and the handler ends,
\* after whatever the callback had already pushed.
RowCallback ==
  /\ pc = "ingesting"
  /\ csv # <<>>
  /\ LET trip == parseTrip(Head(csv), Len(trips) + 1)
         startMin == minutesSinceMidnight(trip.started_at)
         endMin == minutesSinceMidnight(trip.ended_at)
     IN IF ~isBucket(departuresByMinute, startMin)
        THEN /\ pc' = "aborted"
             /\ tripsLoad' = "threw"
             /\ UNCHANGED <<csv, trips, departuresByMinute, arrivalsByMinute>>
        ELSE IF ~isBucket(arrivalsByMinute, endMin)
        THEN /\ pc' = "aborted"
             /\ tripsLoad' = "threw"
             /\ departuresByMinute' = push(departuresByMinute, startMin, trip)
             /\ UNCHANGED <<csv, trips, arrivalsByMinute>>
        ELSE /\ departuresByMinute' = push(departuresByMinute, startMin, trip)
             /\ arrivalsByMinute' = push(arrivalsByMinute, endMin, trip)
             /\ trips' = Append(trips, trip)
             /\ csv' = Tail(csv)
             /\ UNCHANGED <<pc, tripsLoad>>
  /\ UNCHANGED <<stationsJson, stationsLoad, stations, timeFilter, filteredTrips, circles,
                 radiusRange, selectedTime, anyTimeDisplay, consoleErrors, sliderListener>>

\* map.js:149-195, every row parsed: the initial aggregation and the circles
InitialTraffic ==
  /\ pc = "ingesting"
  /\ csv = <<>>
  /\ pc' = "aggregated"
  /\ tripsLoad' = "ok"
  /\ filteredTrips' = filtered(-1)
  /\ stations' = stationTraffic(stations, filteredTrips')
  /\ radiusRange' = <<0, 25>>
  /\ circles' = enterCircles(stations')
  /\ UNCHANGED <<stationsJson, stationsLoad, csv, trips, departuresByMinute,
                 arrivalsByMinute, timeFilter, selectedTime, anyTimeDisplay,
                 consoleErrors, sliderListener>>

\* map.js:203-221
updateScatterPlot(tf) ==
  /\ filteredTrips' = filtered(tf)
  /\ stations' = stationTraffic(stations, filteredTrips')
  /\ radiusRange' = IF tf = -1 THEN <<0, 25>> ELSE <<3, 50>>
  /\ circles' = updateCircles(circles, stations')

\* map.js:223-235, value is Number(timeSlider.value)
updateTimeDisplayBody(value) ==
  /\ timeFilter' = value
  /\ selectedTime' = IF value = -1 THEN <<>> ELSE formatTime(value)
  /\ anyTimeDisplay' = IF value = -1 THEN "block" ELSE "none"
  /\ updateScatterPlot(value)

\* map.js:198-238: the listener is installed and updateTimeDisplay() runs once
InstallSlider(value) ==
  /\ pc = "aggregated"
  /\ pc' = "ready"
  /\ sliderListener' = TRUE
  /\ updateTimeDisplayBody(value)
  /\ UNCHANGED <<stationsJson, stationsLoad, tripsLoad, csv, trips, departuresByMinute,
                 arrivalsByMinute, consoleErrors>>

\* map.js:237, an 'input' event of the slider
updateTimeDisplay(value) ==
  /\ pc = "ready"
  /\ sliderListener
  /\ updateTimeDisplayBody(value)
  /\ UNCHANGED <<pc, sliderListener, stationsJson, stationsLoad, tripsLoad, csv, trips,
                 departuresByMinute, arrivalsByMinute, consoleErrors>>

Next ==
  \/ \E json \in StationArrays : StationsLoaded(json)
  \/ StationsFailed
  \/ \E text \in CsvTexts : TripsFetched(text)
  \/ TripsFailed
  \/ RowCallback
  \/ InitialTraffic
  \/ \E value \in SliderValues : InstallSlider(value)
  \/ \E value \in SliderValues : updateTimeDisplay(value)

Spec == Init /\ [][Next]_vars

----------------------------------------------------------------------------
(* The windowed query on a dense index: one trip starting in every minute of the
   day (and, 25 minutes later, one ending in every minute), every valid slider
   value as the first one. *)

DenseCsv ==
  [i \in 1..MinutesPerDay |->
     [start_station_id |-> IF i % 2 = 0 THEN "A" ELSE "B",
      end_station_id |-> IF i % 3 = 0 THEN "A" ELSE "B",
      started_at |-> [day |-> i % 3, hh |-> (i - 1) \div 60, mm |-> (i - 1) % 60],
      ended_at |-> [day |-> (i % 3) + 1, hh |-> ((i + 24) % MinutesPerDay) \div 60,
                   mm |-> (i + 24) % 60]]]

WindowNext ==
  \/ StationsLoaded(<<"A", "B">>)
  \/ TripsFetched(DenseCsv)
  \/ RowCallback
  \/ InitialTraffic
  \/ \E value \in ValidFilters : InstallSlider(value)
  \/ updateTimeDisplay(700)

WindowSpec == Init /\ [][WindowNext]_vars

----------------------------------------------------------------------------
(* The flow balance of one station with d departures out of t trips *)

FlowCsv(d, t) ==
  [i \in 1..t |->
     [start_station_id |-> IF i <= d THEN "A" ELSE "X",
      end_station_id |-> IF i <= d THEN "X" ELSE "A",
      started_at |-> [day |-> 0, hh |-> 11, mm |-> 40],
      ended_at |-> [day |-> 0, hh |-> 12, mm |-> 5]]]

FlowTotals == (0..MaxSmallTotal) \cup {LargeTotal}

FlowNext ==
  \/ StationsLoaded(<<"A">>)
  \/ \E t \in FlowTotals : \E d \in 0..t : TripsFetched(FlowCsv(d, t))
  \/ RowCallback
  \/ InitialTraffic
  \/ \E value \in {-1, 30} : InstallSlider(value)
  \/ \E value \in {-1, 30} : updateTimeDisplay(value)

FlowSpec == Init /\ [][FlowNext]_vars

----------------------------------------------------------------------------
(* Vocabulary of the properties *)

Range(seq) == { seq[i] : i \in DOMAIN seq }

\* ingestion has finished (every row parsed, the handler went on)
ingestionDone == pc \in {"aggregated", "ready"}

\* the minute of the day of a date-time, whatever its day
minuteOfDay(date) == date % 1440

\* the 0-based slots of an index that hold the trip
slotsOf(index, trip) ==
  { m \in 0..(Len(index) - 1) : \E k \in DOMAIN index[m + 1] : index[m + 1][k] = trip }

\* how often slot m of an index holds the trip
timesInSlot(index, m, trip) ==
  Cardinality({ k \in DOMAIN index[m + 1] : index[m + 1][k] = trip })

\* the buckets of the window of a valid filter value: all of them for -1, else those
\* reached from lo stepping forward mod 1440 up to but not including hi
windowLo(center) == (center - 60 + 1440) % 1440

windowHi(center) == (center + 60) % 1440

windowBuckets(center) ==
  IF center = -1 THEN 0..1439
  ELSE LET lo == windowLo(center)
           hi == windowHi(center)
       IN IF lo > hi THEN (lo..1439) \cup (0..(hi - 1)) ELSE lo..(hi - 1)

\* where a bucket comes in the window's order
windowRank(center, m) == IF center = -1 THEN m ELSE (m - windowLo(center)) % 1440

noRepeats(seq) == \A i, j \in DOMAIN seq : i # j => seq[i] # seq[j]

\* a filtered list holds exactly the trips of the window's buckets, in window order
\* (by the minute of the trips' date field: "started_at" or "ended_at")
isWindowOf(result, center, field) ==
  /\ Range(result) = { t \in Range(trips) : minuteOfDay(t[field]) \in windowBuckets(center) }
  /\ noRepeats(result)
  /\ \A i \in 1..(Len(result) - 1) :
       windowRank(center, minuteOfDay(result[i][field]))
         <= windowRank(center, minuteOfDay(result[i + 1][field]))

startMinute(t) == minuteOfDay(t.started_at)

endMinute(t) == minuteOfDay(t.ended_at)

\* every bucket of both indexes holds a trip
denseIndex ==
  /\ \A m \in DOMAIN departuresByMinute : departuresByMinute[m] # <<>>
  /\ \A m \in DOMAIN arrivalsByMinute : arrivalsByMinute[m] # <<>>

RECURSIVE sumTotalTraffic(_, _)
sumTotalTraffic(stns, n) ==
  IF n = 0 THEN 0 ELSE stns[n].totalTraffic + sumTotalTraffic(stns, n - 1)

\* the number of stations with this short_name
stationsNamed(id) == Cardinality({ i \in DOMAIN stations : stations[i].short_name = id })

RECURSIVE matchedEnds(_)
matchedEnds(n) ==
  IF n = 0 THEN 0
  ELSE stationsNamed(trips[n].start_station_id) + stationsNamed(trips[n].end_station_id)
       + matchedEnds(n - 1)

\* a raw timestamp that parses to a date-time
wellFormed(raw) == raw.day >= 0 /\ raw.hh \in 0..23 /\ raw.mm \in 0..59

\* the circle nodes the keyed data join binds (the first node of each key)
isBound(i) == \A j \in 1..(i - 1) : circles[j].key # circles[i].key

----------------------------------------------------------------------------
(* C1: once ingestion has finished, and in every later state, every ingested trip
   sits exactly once in departuresByMinute, in slot hour*60+minute of its start,
   and exactly once in arrivalsByMinute, in slot hour*60+minute of its end; both
   indexes have 1440 slots and hold nothing that was not ingested. *)
C1_PartitionInvariant ==
  ingestionDone =>
    /\ Len(departuresByMinute) = 1440
    /\ Len(arrivalsByMinute) = 1440
    /\ \A i \in DOMAIN trips :
         /\ slotsOf(departuresByMinute, trips[i]) = { startMinute(trips[i]) }
         /\ timesInSlot(departuresByMinute, startMinute(trips[i]), trips[i]) = 1
         /\ slotsOf(arrivalsByMinute, trips[i]) = { endMinute(trips[i]) }
         /\ timesInSlot(arrivalsByMinute, endMinute(trips[i]), trips[i]) = 1
    /\ \A m \in DOMAIN departuresByMinute : Range(departuresByMinute[m]) \subseteq Range(trips)
    /\ \A m \in DOMAIN arrivalsByMinute : Range(arrivalsByMinute[m]) \subseteq Range(trips)

C1_Witness ==
  /\ pc = "ready"
  /\ timeFilter = 700
  /\ Len(trips) >= 3
  /\ \E i, j \in DOMAIN trips : startMinute(trips[i]) # startMinute(trips[j])

(* C2: for a valid filter value the two filtered lists hold exactly the trips of the
   window's buckets (all 1440 for -1, else [lo,1440) then [0,hi) when lo > hi and
   [lo,hi) otherwise), in that order, each once; on an index with a trip in every
   minute, center 30 selects the minutes [1410,1440) and [0,90), center 700 the
   minutes [640,760). *)
C2_WindowingCorrect ==
  (pc = "ready" /\ timeFilter \in ValidFilters) =>
    /\ isWindowOf(filteredTrips.departures, timeFilter, "started_at")
    /\ isWindowOf(filteredTrips.arrivals, timeFilter, "ended_at")
    /\ (denseIndex /\ timeFilter = 30) =>
         { startMinute(t) : t \in Range(filteredTrips.departures) } = (1410..1439) \cup (0..89)
    /\ (denseIndex /\ timeFilter = 700) =>
         { startMinute(t) : t \in Range(filteredTrips.departures) } = 640..759
    /\ (denseIndex /\ timeFilter = -1) =>
         { endMinute(t) : t \in Range(filteredTrips.arrivals) } = 0..1439

C2_Witness ==
  /\ pc = "ready"
  /\ denseIndex
  /\ timeFilter = 30
  /\ Len(filteredTrips.departures) = 120
  /\ startMinute(filteredTrips.departures[1]) = 1410
  /\ startMinute(filteredTrips.departures[120]) = 89

(* C3, as claimed: after computeStationTraffic(stations, -1) the totalTraffic of all
   stations sums to twice the number of ingested trips. *)
C3_UnfilteredTotalsAsClaimed ==
  (ingestionDone /\ timeFilter = -1) =>
    sumTotalTraffic(stations, Len(stations)) = 2 * Len(trips)

(* C3, amended: after computeStationTraffic(stations, -1) the totalTraffic of all
   stations sums to the number of trip ends (start or end station) counted once per
   station of that short_name; it is twice the number of ingested trips when every
   trip's start and end station id each name exactly one station. *)
C3_UnfilteredTotals ==
  (ingestionDone /\ timeFilter = -1) =>
    /\ sumTotalTraffic(stations, Len(stations)) = matchedEnds(Len(trips))
    /\ (\A i \in DOMAIN trips :
          /\ stationsNamed(trips[i].start_station_id) = 1
          /\ stationsNamed(trips[i].end_station_id) = 1)
       => sumTotalTraffic(stations, Len(stations)) = 2 * Len(trips)

C3_Witness ==
  /\ pc = "ready"
  /\ timeFilter = -1
  /\ Len(trips) >= 2
  /\ \A i \in DOMAIN trips :
       /\ stationsNamed(trips[i].start_station_id) = 1
       /\ stationsNamed(trips[i].end_station_id) = 1
  /\ sumTotalTraffic(stations, Len(stations)) = 2 * Len(trips)

(* C4: after an aggregation with a valid filter the stations are the fetched ones, in
   their order; each has departures = the number of ingested trips starting in the
   window at a station of its short_name, arrivals = the number ending in the window
   there, totalTraffic = their sum. *)
C4_PerStation ==
  (ingestionDone /\ timeFilter \in ValidFilters) =>
    /\ Len(stations) = Len(stationsJson)
    /\ \A i \in DOMAIN stations :
         /\ stations[i].short_name = stationsJson[i]
         /\ stations[i].departures =
              Cardinality({ k \in DOMAIN trips :
                              /\ trips[k].start_station_id = stations[i].short_name
                              /\ startMinute(trips[k]) \in windowBuckets(timeFilter) })
         /\ stations[i].arrivals =
              Cardinality({ k \in DOMAIN trips :
                              /\ trips[k].end_station_id = stations[i].short_name
                              /\ endMinute(trips[k]) \in windowBuckets(timeFilter) })
         /\ stations[i].totalTraffic = stations[i].departures + stations[i].arrivals

\* trips A->B and B->A, no filter: A and B each 1 departure, 1 arrival, 2 in total
C4_Witness ==
  /\ pc = "ready"
  /\ timeFilter = -1
  /\ Len(trips) = 2
  /\ trips[1].start_station_id = "A" /\ trips[1].end_station_id = "B"
  /\ trips[2].start_station_id = "B" /\ trips[2].end_station_id = "A"
  /\ \E i, j \in DOMAIN stations :
       /\ stations[i] = [short_name |-> "A", departures |-> 1, arrivals |-> 1, totalTraffic |-> 2]
       /\ stations[j] = [short_name |-> "B", departures |-> 1, arrivals |-> 1, totalTraffic |-> 2]

(* C5: after any sequence of aggregations the station records are what one
   computeStationTraffic with the current filter gives on the stations as fetched
   (so a repeated filter value changes nothing). *)
C5_HistoryIndependent ==
  ingestionDone =>
    stations = computeStationTraffic(freshStations(stationsJson), timeFilter)

\* a filtered aggregation, after the unfiltered one, that left other counts
C5_Witness ==
  /\ pc = "ready"
  /\ timeFilter = 700
  /\ \E i \in DOMAIN stations : stations[i].totalTraffic > 0
  /\ stations # computeStationTraffic(freshStations(stationsJson), -1)

(* C6, as claimed: a slider value outside [-1,1439] is rejected: no trip list is
   produced for it and no station field is updated. *)
C6_OutOfRangeRejected ==
  [][timeFilter' \notin ValidFilters =>
       (stations' = stations /\ filteredTrips' = filteredTrips)]_vars

(* C7, as claimed: a row whose started_at or ended_at does not parse is skipped: it
   enters no bucket of either index and ingestion goes on with the next row. *)
C7_MalformedSkipped ==
  [][(/\ pc = "ingesting"
      /\ csv # <<>>
      /\ ~(wellFormed(Head(csv).started_at) /\ wellFormed(Head(csv).ended_at)))
     => (/\ pc' = "ingesting"
         /\ csv' = Tail(csv)
         /\ departuresByMinute' = departuresByMinute
         /\ arrivalsByMinute' = arrivalsByMinute)]_vars

(* C8, as claimed: a failed station load and a failed trip load are logged and the
   handler goes on (it never stops because of them). *)
C8_LoadFailureNonFatal ==
  /\ stationsLoad = "failed" => consoleErrors # <<>>
  /\ tripsLoad = "failed" => (pc # "aborted" /\ consoleErrors # <<>>)

\* the level the amended C9 gives d departures out of t trips
flowLevel(d, t) ==
  IF t = 0 THEN "0.5"
  ELSE IF 3 * d < t THEN "0"
  ELSE IF 3 * d < 2 * t THEN "0.5"
  ELSE "1"

\* the level C9 as claimed gives: 0.5 between 1/3 and 2/3, 1 only above 2/3
flowLevelAsClaimed(d, t) ==
  IF t = 0 THEN "0.5"
  ELSE IF 3 * d < t THEN "0"
  ELSE IF 3 * d <= 2 * t THEN "0.5"
  ELSE "1"

(* C9, as claimed: the departure-ratio level of a circle is 0.5 for no traffic, else
   0 below 1/3, 0.5 from 1/3 to 2/3, 1 above 2/3. *)
C9_FlowLevelAsClaimed ==
  \A i \in DOMAIN circles :
    isBound(i) =>
      circles[i].departureRatio =
        flowLevelAsClaimed(stations[i].departures, stations[i].totalTraffic)

(* C9, amended: the departure-ratio level of a circle is 0.5 for no traffic, else 0
   for a ratio below 1/3, 0.5 for a ratio of at least 1/3 and below 2/3, 1 for a
   ratio of at least 2/3; it is one of 0, 0.5, 1; ratio 0.33 gives 0, 0.34 gives
   0.5, 0.67 gives 1. *)
C9_FlowLevel ==
  \A i \in DOMAIN circles :
    isBound(i) =>
      LET d == stations[i].departures
          t == stations[i].totalTraffic
      IN /\ circles[i].departureRatio = flowLevel(d, t)
         /\ circles[i].departureRatio \in {"0", "0.5", "1"}
         /\ (d = 33 /\ t = 100) => circles[i].departureRatio = "0"
         /\ (d = 34 /\ t = 100) => circles[i].departureRatio = "0.5"
         /\ (d = 67 /\ t = 100) => circles[i].departureRatio = "1"

C9_Witness ==
  /\ pc = "ready"
  /\ \E i \in DOMAIN circles :
       /\ isBound(i)
       /\ stations[i].departures = 34
       /\ stations[i].arrivals = 66
       /\ stations[i].totalTraffic = 100
       /\ circles[i].departureRatio = "0.5"

\* the minutes of the day the departure window of the current filter selected
selectedMinutes == { startMinute(t) : t \in Range(filteredTrips.departures) }

(* C10, as claimed: for a center in [0,1439] the window covers 121 minute buckets. *)
C10_WindowWidthAsClaimed ==
  (pc = "ready" /\ denseIndex /\ timeFilter \in 0..1439) =>
    Cardinality(selectedMinutes) = 121

(* C10, amended: for a center in [0,1439] the window covers exactly 120 distinct
   minute buckets, center-60 up to center+59 (mod 1440): it is asymmetric around
   the center, center-60 being in it and center+60 not. *)
C10_WindowWidth ==
  (pc = "ready" /\ denseIndex /\ timeFilter \in 0..1439) =>
    /\ Cardinality(selectedMinutes) = 120
    /\ selectedMinutes = { (timeFilter - 60 + k) % 1440 : k \in 0..119 }
    /\ (timeFilter - 60) % 1440 \in selectedMinutes
    /\ (timeFilter + 60) % 1440 \notin selectedMinutes

C10_Witness ==
  /\ pc = "ready"
  /\ denseIndex
  /\ timeFilter = 1439
  /\ Cardinality(selectedMinutes) = 120
  /\ 1379 \in selectedMinutes
  /\ 58 \in selectedMinutes
  /\ 59 \notin selectedMinutes

====
